---- MODULE Spec2Model ----
(***************************************************************************)
(* Word Flashcards (flashcards.py): the persistence routines, the word     *)
(* normaliser and the FlashcardApp controller state, as a state machine.   *)
(*                                                                         *)
(* Strings are sequences of one-character strings, so that strip, lower,   *)
(* splitlines and join are computed character by character.  Python's None *)
(* and the empty string are both falsy and are both the empty sequence     *)
(* here: no set name of the model is empty.                                *)
(***************************************************************************)
EXTENDS Integers, Sequences, FiniteSets, TLC

VARIABLES
    file,               \* content of flashcard_data.json (DATA_FILE)
    data,               \* self.data: set name -> list of words
    current_group_name, \* self.current_group_name
    session_words,      \* self.session_words
    index,              \* self.index
    editing_group,      \* self.editing_group
    group_list,         \* items of the self.group_list Listbox
    selection,          \* selected row of the Listbox, 0 when none
    entry_set_name,     \* content of the self.entry_set_name Entry
    entry_state,        \* state of the Entry: "normal" or "disabled"
    text_words,         \* content of the self.text_words Text widget
    lbl_group,          \* set named by the self.lbl_group label, None if none
    tab,                \* selected tab of self.notebook
    msg,                \* title of the last messagebox of the latest handler
    op                  \* the latest handler or user event

vars == <<file, data, current_group_name, session_words, index, editing_group,
          group_list, selection, entry_set_name, entry_state, text_words,
          lbl_group, tab, msg, op>>

-----------------------------------------------------------------------------
(* Bounds and input sets *)

\* most lines the user types into the word box at once
MaxLines == 2

None == <<>>
NL == "\n"
X == <<"X">>
Y == <<"Y">>

\* what the user types into the word box, line by line: nothing, one word,
\* a word and its other casing with a trailing blank, two words the first
\* with a leading blank, and the same two words around an empty line
TypedLines ==
    { <<>>,
      << <<"a">> >>,
      << <<"a">>, <<"A", " ">> >>,
      << <<" ", "b">>, <<"a">> >>,
      << <<" ", "b">>, <<>>, <<"a">> >> }

\* what the user types into the name entry
EntryInputs == { <<>>, X, <<" ", "Y">> }

-----------------------------------------------------------------------------
(* Python string methods *)

IsSpace(c) == c \in {" ", NL}

RECURSIVE lstrip(_)
lstrip(s) == IF s # <<>> /\ IsSpace(Head(s)) THEN lstrip(Tail(s)) ELSE s

RECURSIVE rstrip(_)
rstrip(s) ==
    IF s # <<>> /\ IsSpace(s[Len(s)]) THEN rstrip(SubSeq(s, 1, Len(s) - 1)) ELSE s

strip(s) == rstrip(lstrip(s))

lower_char(c) == IF c = "A" THEN "a" ELSE IF c = "B" THEN "b" ELSE c

lower(s) == [i \in 1..Len(s) |-> lower_char(s[i])]

\* position of the first line break of s, 0 when there is none
RECURSIVE first_break(_, _)
first_break(s, i) ==
    IF i > Len(s) THEN 0 ELSE IF s[i] = NL THEN i ELSE first_break(s, i + 1)

RECURSIVE splitlines(_)
splitlines(s) ==
    IF s = <<>> THEN <<>>
    ELSE LET i == first_break(s, 1)
         IN  IF i = 0 THEN <<s>>
             ELSE <<SubSeq(s, 1, i - 1)>> \o splitlines(SubSeq(s, i + 1, Len(s)))

RECURSIVE join(_, _)
join(sep, ws) ==
    IF ws = <<>> THEN <<>>
    ELSE IF Len(ws) = 1 THEN ws[1]
    ELSE ws[1] \o sep \o join(sep, Tail(ws))

\* str(x) of a JSON scalar
str(x) ==
    CASE x.t = "string" -> x.s
      [] x.t = "number" -> << <<"0", "1", "2", "3", "4", "5", "6", "7", "8", "9">>[x.n + 1] >>
      [] x.t = "null"   -> <<"N", "o", "n", "e">>

-----------------------------------------------------------------------------
(* normalize_words *)

Range(s) == {s[i] : i \in 1..Len(s)}

RECURSIVE drop_empty(_)
drop_empty(ws) ==
    IF ws = <<>> THEN <<>>
    ELSE IF Head(ws) # <<>> THEN <<Head(ws)>> \o drop_empty(Tail(ws))
    ELSE drop_empty(Tail(ws))

RECURSIVE uniq_from(_, _, _)
uniq_from(ws, seen, uniq) ==
    IF ws = <<>> THEN uniq
    ELSE LET w == Head(ws)
             key == lower(w)
         IN  IF key \notin seen
             THEN uniq_from(Tail(ws), seen \cup {key}, Append(uniq, w))
             ELSE uniq_from(Tail(ws), seen, uniq)

normalize_words_nodedup(text) ==
    LET ls == splitlines(text)
        lines == [i \in 1..Len(ls) |-> strip(ls[i])]
    IN  drop_empty(lines)

normalize_words(text) ==
    LET ls == splitlines(text)
        lines == [i \in 1..Len(ls) |-> strip(ls[i])]
        words == drop_empty(lines)
    IN  uniq_from(words, {}, <<>>)

-----------------------------------------------------------------------------
(* Data persistence *)

JString(s) == [t |-> "string", s |-> s]
JNumber(n) == [t |-> "number", n |-> n]
JArray(items) == [t |-> "array", items |-> items]
JObject(members) == [t |-> "object", members |-> members]

FileAbsent == [kind |-> "absent"]
FileGarbage == [kind |-> "garbage"]
FileJson(root) == [kind |-> "json", root |-> root]

RECURSIVE keep_nonblank(_)
keep_nonblank(v) ==
    IF v = <<>> THEN <<>>
    ELSE IF strip(str(Head(v))) # <<>> THEN <<str(Head(v))>> \o keep_nonblank(Tail(v))
    ELSE keep_nonblank(Tail(v))

load_data(f) ==
    IF f.kind = "absent" THEN <<>>
    ELSE IF f.kind = "garbage" THEN <<>>
    ELSE IF f.root.t = "object"
         THEN LET members == f.root.members
                  kept == {k \in DOMAIN members : members[k].t = "array"}
              IN  [k \in kept |-> keep_nonblank(members[k].items)]
         ELSE <<>>

save_data_as_strings(d) ==
    FileJson(JObject([k \in DOMAIN d |-> JString(join(<<",">>, d[k]))]))

save_data(d) ==
    FileJson(JObject([k \in DOMAIN d |->
        JArray([i \in 1..Len(d[k]) |-> JString(d[k][i])])]))

\* flashcard_data.json as the application may find it at start-up
Files0 ==
    { FileAbsent,
      FileGarbage,
      FileJson(JArray(<<JString(<<"a">>)>>)),
      FileJson(JObject(
          (X :> JArray(<<JString(<<"a">>), JString(<<" ">>), JString(<<"A">>)>>))
          @@ (Y :> JString(<<"a">>)))),
      FileJson(JObject(
          (X :> JArray(<<JNumber(1)>>))
          @@ (Y :> JArray(<<>>)))) }

-----------------------------------------------------------------------------
(* Listbox *)

ord(c) == CASE c = "X" -> 1 [] c = "x" -> 1 [] c = "Y" -> 2 [] c = "y" -> 2
            [] OTHER -> 0

\* key order of sorted(..., key=lambda s: s.lower()) on the names of the model
name_before(a, b) == ord(lower(a)[1]) <= ord(lower(b)[1])

RECURSIVE sorted_names(_)
sorted_names(S) ==
    IF S = {} THEN <<>>
    ELSE LET first == CHOOSE a \in S : \A b \in S : name_before(a, b)
         IN  <<first>> \o sorted_names(S \ {first})

\* position of name g in items, 0 when absent
RECURSIVE find_item(_, _, _)
find_item(items, g, i) ==
    IF i > Len(items) THEN 0 ELSE IF items[i] = g THEN i ELSE find_item(items, g, i + 1)

\* _selected_group_name
selected_group_name ==
    IF selection = 0 THEN None ELSE group_list[selection]

-----------------------------------------------------------------------------
(* Session helpers *)

\* the orders random.shuffle can leave the list in
shuffle_with_repeats(ws) == [1..Len(ws) -> Range(ws)]

shuffle(ws) ==
    {[i \in 1..Len(ws) |-> ws[p[i]]] : p \in Permutations(1..Len(ws))}

\* guard of start_session
session_startable_any_list(g, d) == g \in DOMAIN d

session_startable(g, d) == g \in DOMAIN d /\ d[g] # <<>>

next_card_index_past_end(i, ws) == IF i < Len(ws) THEN i + 1 ELSE i

next_card_index(i, ws) == IF i < Len(ws) - 1 THEN i + 1 ELSE i

prev_card_index_wrapping(i, ws) == IF i > 0 THEN i - 1 ELSE Len(ws) - 1

prev_card_index(i, ws) == IF i > 0 THEN i - 1 ELSE i

\* the word _render_card draws, None for the placeholder text
current_word == IF session_words = <<>> THEN None ELSE session_words[index + 1]

\* the text edit_current_set puts into the word box
prefill_spaced(ws) == join(<<" ">>, ws)

prefill(ws) == join(<<NL>>, ws)

\* text_words.get("1.0", "end"): Tk appends a line break to the content
text_get(content) == content \o <<NL>>

\* the second validation of save_new_set
has_words_unchecked(words) == TRUE

has_words(words) == words # <<>>

\* whether save_new_set may write name outside edit mode
may_write(name, d, ok) == name \notin DOMAIN d \/ ok

put(d, name, words) ==
    [k \in DOMAIN d \cup {name} |-> IF k = name THEN words ELSE d[k]]

pop(d, g) == [k \in DOMAIN d \ {g} |-> d[k]]

\* what the user can type into the word box
Texts == {join(<<NL>>, ls) : ls \in {l \in TypedLines : Len(l) <= MaxLines}}

-----------------------------------------------------------------------------
(* State after FlashcardApp.__init__ *)

Init ==
    /\ file \in Files0
    /\ data = load_data(file)
    /\ current_group_name = None
    /\ session_words = <<>>
    /\ index = 0
    /\ editing_group = None
    /\ group_list = sorted_names(DOMAIN data)
    /\ selection = 0
    /\ entry_set_name = <<>>
    /\ entry_state = "normal"
    /\ text_words = <<>>
    /\ lbl_group = None
    /\ tab = "create"
    /\ msg = ""
    /\ op = "__init__"

\* the application is closed and started again
Restart ==
    /\ file' = file
    /\ op' = "__init__"
    /\ data' = load_data(file)
    /\ current_group_name' = None
    /\ session_words' = <<>>
    /\ index' = 0
    /\ editing_group' = None
    /\ group_list' = sorted_names(DOMAIN load_data(file))
    /\ selection' = 0
    /\ entry_set_name' = <<>>
    /\ entry_state' = "normal"
    /\ text_words' = <<>>
    /\ lbl_group' = None
    /\ tab' = "create"
    /\ msg' = ""

-----------------------------------------------------------------------------
(* The user fills in the create form *)

SetName(raw) ==
    /\ tab = "create"
    /\ op' = "type_name"
    /\ entry_state = "normal"
    /\ entry_set_name' = raw
    /\ msg' = ""
    /\ UNCHANGED <<file, data, current_group_name, session_words, index,
                   editing_group, group_list, selection, entry_state,
                   text_words, lbl_group, tab>>

TypeWords(t) ==
    /\ tab = "create"
    /\ op' = "type_words"
    /\ text_words' = t
    /\ msg' = ""
    /\ UNCHANGED <<file, data, current_group_name, session_words, index,
                   editing_group, group_list, selection, entry_set_name,
                   entry_state, lbl_group, tab>>

-----------------------------------------------------------------------------
(* Listbox selection *)

\* the user clicks row i: <<ListboxSelect>> runs _on_group_select
SelectGroup(i) ==
    /\ i \in 1..Len(group_list)
    /\ op' = "_on_group_select"
    /\ selection' = i
    /\ current_group_name' = group_list[i]
    /\ msg' = ""
    /\ UNCHANGED <<file, data, session_words, index, editing_group, group_list,
                   entry_set_name, entry_state, text_words, lbl_group, tab>>

\* the Listbox loses its selection to another widget: _on_group_select runs
\* with nothing selected
ClearSelection ==
    /\ selection # 0
    /\ op' = "_on_group_select"
    /\ selection' = 0
    /\ current_group_name' = None
    /\ msg' = ""
    /\ UNCHANGED <<file, data, session_words, index, editing_group, group_list,
                   entry_set_name, entry_state, text_words, lbl_group, tab>>

-----------------------------------------------------------------------------
(* start_session, as a step from current_group_name cgn and dialog m *)

start_session(g, d, cgn, m) ==
    IF ~session_startable(g, d)
    THEN /\ msg' = "Empty set"
         /\ current_group_name' = cgn
         /\ UNCHANGED <<session_words, index, lbl_group, tab>>
    ELSE /\ current_group_name' = g
         /\ session_words' \in shuffle(d[g])
         /\ index' = 0
         /\ lbl_group' = g
         /\ tab' = "cards"
         /\ msg' = m

StartSessionFromSelected ==
    LET g == selected_group_name
    IN  /\ op' = "start_session_from_selected"
        /\ IF g = None
           THEN /\ msg' = "Select a set"
                /\ UNCHANGED <<file, data, current_group_name, session_words,
                               index, editing_group, group_list, selection,
                               entry_set_name, entry_state, text_words,
                               lbl_group, tab>>
           ELSE /\ start_session(g, data, current_group_name, "")
                /\ UNCHANGED <<file, data, editing_group, group_list,
                               selection, entry_set_name, entry_state,
                               text_words>>

-----------------------------------------------------------------------------
(* save_new_set; ok is the answer to the "Overwrite?" prompt *)

SaveNewSet(ok) ==
    LET text == strip(text_get(text_words))
        words == normalize_words(text)
        name == IF editing_group # None THEN editing_group
                ELSE strip(entry_set_name)
        d1 == put(data, name, words)
    IN  /\ tab = "create"
        /\ op' = "save_new_set"
        /\ IF name = None
           THEN /\ msg' = "Missing name"
                /\ UNCHANGED <<file, data, current_group_name, session_words,
                               index, editing_group, group_list, selection,
                               entry_set_name, entry_state, text_words,
                               lbl_group, tab>>
           ELSE IF ~has_words(words)
           THEN /\ msg' = "No words"
                /\ UNCHANGED <<file, data, current_group_name, session_words,
                               index, editing_group, group_list, selection,
                               entry_set_name, entry_state, text_words,
                               lbl_group, tab>>
           ELSE IF editing_group # None
           THEN /\ data' = d1
                /\ file' = save_data(d1)
                /\ group_list' = sorted_names(DOMAIN d1)
                /\ selection' = find_item(sorted_names(DOMAIN d1), name, 1)
                /\ editing_group' = None
                /\ entry_state' = "normal"
                /\ entry_set_name' = <<>>
                /\ text_words' = <<>>
                /\ start_session(name, d1, name, "Updated")
           ELSE IF ~may_write(name, data, ok)
           THEN /\ msg' = "Overwrite?"
                /\ UNCHANGED <<file, data, current_group_name, session_words,
                               index, editing_group, group_list, selection,
                               entry_set_name, entry_state, text_words,
                               lbl_group, tab>>
           ELSE /\ data' = d1
                /\ file' = save_data(d1)
                /\ group_list' = sorted_names(DOMAIN d1)
                /\ selection' = find_item(sorted_names(DOMAIN d1), name, 1)
                /\ current_group_name' = name
                /\ msg' = "Saved"
                /\ UNCHANGED <<session_words, index, editing_group,
                               entry_set_name, entry_state, text_words,
                               lbl_group, tab>>

-----------------------------------------------------------------------------
(* delete_selected_group; ok is the answer to the "Delete?" prompt *)

DeleteSelectedGroup(ok) ==
    LET g == selected_group_name
        d1 == pop(data, g)
        cgn1 == None      \* self.current_group_name = None, before the test
    IN  /\ op' = "delete_selected_group"
        /\ IF g = None
           THEN /\ msg' = "Select a set"
                /\ UNCHANGED <<file, data, current_group_name, session_words,
                               index, editing_group, group_list, selection,
                               entry_set_name, entry_state, text_words,
                               lbl_group, tab>>
           ELSE IF ~ok
           THEN /\ msg' = "Delete?"
                /\ UNCHANGED <<file, data, current_group_name, session_words,
                               index, editing_group, group_list, selection,
                               entry_set_name, entry_state, text_words,
                               lbl_group, tab>>
           ELSE /\ data' = d1
                /\ file' = save_data(d1)
                /\ current_group_name' = cgn1
                /\ group_list' = sorted_names(DOMAIN d1)
                /\ selection' = 0
                /\ msg' = "Deleted"
                /\ IF g = cgn1
                   THEN /\ session_words' = <<>>
                        /\ index' = 0
                        /\ lbl_group' = None
                   ELSE UNCHANGED <<session_words, index, lbl_group>>
                /\ UNCHANGED <<editing_group, entry_set_name, entry_state,
                               text_words, tab>>

-----------------------------------------------------------------------------
(* edit_current_set *)

EditCurrentSet ==
    LET g == current_group_name
    IN  /\ tab = "cards"
        /\ op' = "edit_current_set"
        /\ IF g = None \/ g \notin DOMAIN data
           THEN /\ msg' = "No set"
                /\ UNCHANGED <<file, data, current_group_name, session_words,
                               index, editing_group, group_list, selection,
                               entry_set_name, entry_state, text_words,
                               lbl_group, tab>>
           ELSE /\ editing_group' = g
                /\ tab' = "create"
                \* a disabled Entry ignores delete and insert
                /\ entry_set_name' =
                       IF entry_state = "normal" THEN g ELSE entry_set_name
                /\ text_words' = prefill(data[g])
                /\ entry_state' = "disabled"
                /\ msg' = ""
                /\ UNCHANGED <<file, data, current_group_name, session_words,
                               index, group_list, selection, lbl_group>>

-----------------------------------------------------------------------------
(* The user clicks the other tab: <<NotebookTabChanged>> runs _on_tab_changed.
   The tab changes made by start_session and edit_current_set raise the same
   event, for which the handler does nothing: the new tab is the Flashcards
   tab, or editing_group is set. *)

TabChanged(t) ==
    /\ t # tab
    /\ op' = "_on_tab_changed"
    /\ tab' = t
    /\ msg' = ""
    /\ IF t = "create" /\ editing_group = None
       THEN /\ entry_state' = "normal"
            /\ entry_set_name' = <<>>
            /\ text_words' = <<>>
       ELSE UNCHANGED <<entry_state, entry_set_name, text_words>>
    /\ UNCHANGED <<file, data, current_group_name, session_words, index,
                   editing_group, group_list, selection, lbl_group>>

-----------------------------------------------------------------------------
(* reshuffle, prev_card, next_card.  The disabled state of the buttons is not
   modelled: the handlers' own guards decide. *)

Reshuffle ==
    /\ tab = "cards"
    /\ op' = "reshuffle"
    /\ IF session_words = <<>>
       THEN UNCHANGED <<session_words, index>>
       ELSE /\ session_words' \in shuffle(session_words)
            /\ index' = 0
    /\ msg' = ""
    /\ UNCHANGED <<file, data, current_group_name, editing_group, group_list,
                   selection, entry_set_name, entry_state, text_words,
                   lbl_group, tab>>

PrevCard ==
    /\ op' = "prev_card"
    /\ IF session_words = <<>>
       THEN UNCHANGED index
       ELSE index' = prev_card_index(index, session_words)
    /\ msg' = ""
    /\ UNCHANGED <<file, data, current_group_name, session_words,
                   editing_group, group_list, selection, entry_set_name,
                   entry_state, text_words, lbl_group, tab>>

NextCard ==
    /\ op' = "next_card"
    /\ IF session_words = <<>>
       THEN UNCHANGED index /\ msg' = ""
       ELSE /\ index' = next_card_index(index, session_words)
            /\ msg' = IF index < Len(session_words) - 1 THEN "" ELSE "Done!"
    /\ UNCHANGED <<file, data, current_group_name, session_words,
                   editing_group, group_list, selection, entry_set_name,
                   entry_state, text_words, lbl_group, tab>>

-----------------------------------------------------------------------------

Next ==
    \/ \E raw \in EntryInputs : SetName(raw)
    \/ \E t \in Texts : TypeWords(t)
    \/ \E i \in 1..2 : SelectGroup(i)
    \/ ClearSelection
    \/ \E ok \in BOOLEAN : SaveNewSet(ok)
    \/ \E ok \in BOOLEAN : DeleteSelectedGroup(ok)
    \/ StartSessionFromSelected
    \/ EditCurrentSet
    \/ \E t \in {"create", "cards"} : TabChanged(t)
    \/ Reshuffle
    \/ PrevCard
    \/ NextCard
    \/ Restart

Spec == Init /\ [][Next]_vars

-----------------------------------------------------------------------------
(* Vocabulary of the properties *)

\* everything but the record of the latest handler and its dialog
core == <<file, data, current_group_name, session_words, index, editing_group,
          group_list, selection, entry_set_name, entry_state, text_words,
          lbl_group, tab>>

\* the active session: source set name, shuffled words, cursor
session == <<lbl_group, session_words, index>>

Count(ws, w) == Cardinality({i \in 1..Len(ws) : ws[i] = w})

\* a and b hold the same words the same number of times
IsPermutation(a, b) ==
    /\ Len(a) = Len(b)
    /\ \A w \in Range(a) \cup Range(b) : Count(a, w) = Count(b, w)

-----------------------------------------------------------------------------
(* C1: whenever session_words is non-empty, 0 <= index < len(session_words). *)
C1_CursorInRange ==
    session_words # <<>> => 0 <= index /\ index < Len(session_words)

\* next_card was refused at the last card of a session whose set is gone
C1_Witness ==
    /\ op = "next_card" /\ msg = "Done!"
    /\ Len(session_words) = 2 /\ index = 1
    /\ lbl_group \notin DOMAIN data

(* C2: a confirmed delete of the set under review leaves no active session:
   session_words is empty, index is 0 and there is no current word. *)
C2_DeleteClearsSession ==
    [][(/\ op' = "delete_selected_group" /\ msg' = "Deleted"
        /\ session_words # <<>>
        /\ selected_group_name = lbl_group)
       => (session_words' = <<>> /\ index' = 0 /\ current_word' = None)]_vars

(* C3: with an active session, next_card at the last index shows "Done!" and
   changes nothing else, and at any other index adds exactly 1 to index
   without the dialog; prev_card at index 0 changes nothing and shows nothing,
   and at any other index subtracts exactly 1; neither changes
   session_words. *)
C3_NavigationSteps ==
    [][/\ (op' = "next_card" /\ session_words # <<>>)
          => IF index = Len(session_words) - 1
             THEN msg' = "Done!" /\ UNCHANGED core
             ELSE /\ index' = index + 1
                  /\ msg' # "Done!"
                  /\ session_words' = session_words
       /\ (op' = "prev_card" /\ session_words # <<>>)
          => /\ msg' = ""
             /\ session_words' = session_words
             /\ IF index = 0 THEN UNCHANGED core ELSE index' = index - 1
      ]_vars

\* prev_card has stepped back from the last card to the first
C3_Witness ==
    /\ op = "prev_card" /\ msg = ""
    /\ Len(session_words) = 2 /\ index = 0

(* C4: reshuffle on an active session leaves a permutation of the same
   multiset of words and index 0, from any index; with no active session it
   changes nothing. *)
C4_Reshuffle ==
    [][op' = "reshuffle"
       => IF session_words = <<>>
          THEN UNCHANGED core
          ELSE /\ IsPermutation(session_words', session_words)
               /\ index' = 0
      ]_vars

\* reshuffle has left the words in an order other than the stored one
C4_Witness ==
    /\ op = "reshuffle"
    /\ Len(session_words) = 2 /\ index = 0
    /\ lbl_group \in DOMAIN data
    /\ session_words # data[lbl_group]
    /\ IsPermutation(session_words, data[lbl_group])

(* C5: Review of a set that is missing from data or has no words leaves the
   active session (source name, shuffled words, cursor) unchanged; otherwise
   the new session_words is a permutation of data[name], index is 0 and the
   current word is the first element of that permutation. *)
C5_StartSession ==
    [][(op' = "start_session_from_selected" /\ selected_group_name # None)
       => LET name == selected_group_name
          IN  IF name \notin DOMAIN data \/ data[name] = <<>>
              THEN UNCHANGED session
              ELSE /\ IsPermutation(session_words', data[name])
                   /\ index' = 0
                   /\ lbl_group' = name
                   /\ current_word' = session_words'[1]
      ]_vars

\* Review of a set without words was refused while another session was open
C5_Witness ==
    /\ op = "start_session_from_selected" /\ msg = "Empty set"
    /\ selected_group_name \in DOMAIN data
    /\ data[selected_group_name] = <<>>
    /\ session_words # <<>>

(* C6: an aborted request leaves data, the file, the active session and
   editing_group unchanged: save_new_set with an empty name or no words,
   save_new_set outside edit mode on an existing name with the overwrite
   declined, delete_selected_group with nothing selected or declined. *)
C6_AbortedRequests ==
    [][LET words == normalize_words(strip(text_words \o <<NL>>))
           name == IF editing_group # None THEN editing_group
                   ELSE strip(entry_set_name)
       IN  (\/ /\ op' = "save_new_set"
               /\ \/ name = <<>>
                  \/ words = <<>>
                  \/ msg' = "Overwrite?"
            \/ /\ op' = "delete_selected_group"
               /\ \/ selection = 0
                  \/ msg' = "Delete?")
           => UNCHANGED <<data, file, session, editing_group>>
      ]_vars

\* an update without words was refused in edit mode, with a session open
C6_Witness ==
    /\ op = "save_new_set" /\ msg = "No words"
    /\ editing_group # None
    /\ session_words # <<>>

NonBlankWords(ws) == \A i \in 1..Len(ws) : strip(ws[i]) # <<>>

NoCaseDuplicates(ws) ==
    \A i, j \in 1..Len(ws) : i # j => lower(ws[i]) # lower(ws[j])

(* C7 as stated: in every reachable state, from the load of any file, every
   list of data holds only words that are non-empty after trimming and no two
   words equal when compared case-insensitively. *)
C7_AllListsNormalized ==
    \A n \in DOMAIN data : NonBlankWords(data[n]) /\ NoCaseDuplicates(data[n])

(* C7 as amended: every word of every list is non-empty after trimming, and
   every list that a create, overwrite or edit-mode update stores has no two
   words equal when compared case-insensitively; a list loaded from the file
   is kept as loaded, duplicates included, until it is overwritten. *)
C7_StoredListsNormalized ==
    /\ [](\A n \in DOMAIN data : NonBlankWords(data[n]))
    /\ [][\A n \in DOMAIN data' :
              (n \notin DOMAIN data \/ data'[n] # data[n])
              => NoCaseDuplicates(data'[n])]_vars

\* a loaded list with duplicates next to a list saved from text with duplicates
C7_Witness ==
    /\ op = "save_new_set" /\ msg = "Saved"
    /\ text_words = <<"a", NL, "A", " ">>
    /\ Y \in DOMAIN data /\ data[Y] = << <<"a">> >>
    /\ X \in DOMAIN data /\ data[X] = << <<"a">>, <<"A">> >>

(* C8: whenever editing_group is set and the create tab is left for the
   Flashcards tab (by a tab click or by starting a review), editing_group is
   cleared. *)
C8_LeavingTabClearsEdit ==
    [][(tab = "create" /\ tab' = "cards" /\ editing_group # None)
       => editing_group' = None]_vars

\* edit_current_set prefills the word box with the stored words, one per line
C9_Prefill ==
    (op' = "edit_current_set" /\ msg' # "No set")
    => /\ editing_group' = current_group_name
       /\ text_words' = join(<<NL>>, data[current_group_name])

\* an edit-mode save of the stored words, one per line
C9_SaveSameText ==
    /\ op' = "save_new_set"
    /\ editing_group # None
    /\ editing_group \in DOMAIN data
    /\ text_words = join(<<NL>>, data[editing_group])

C9_SameListFreshSession ==
    /\ data' = data
    /\ editing_group' = None
    /\ lbl_group' = editing_group
    /\ IsPermutation(session_words', data[editing_group])
    /\ index' = 0

\* non-empty, every word trimmed and without line break, no two words equal
\* case-insensitively
IsNormalized(ws) ==
    /\ ws # <<>>
    /\ \A i \in 1..Len(ws) :
           /\ ws[i] # <<>>
           /\ strip(ws[i]) = ws[i]
           /\ NL \notin Range(ws[i])
    /\ NoCaseDuplicates(ws)

(* C9 as stated: for any set X of data, edit_current_set prefills the word
   box with data[X] joined by line breaks, and saving that text unchanged in
   edit mode leaves data[X] unchanged, clears editing_group and starts a fresh
   session over X. *)
C9_EditRoundTrip ==
    [][C9_Prefill /\ (C9_SaveSameText => C9_SameListFreshSession)]_vars

(* C9 as amended: the same, for any set X whose stored list is non-empty and
   normalized (words trimmed, free of line breaks, pairwise different when
   compared case-insensitively), as every list stored by a save is. *)
C9_EditRoundTripNormalized ==
    [][/\ C9_Prefill
       /\ (C9_SaveSameText /\ IsNormalized(data[editing_group]))
          => C9_SameListFreshSession]_vars

\* an update has stored a two-word list and opened a session over it
C9_Witness ==
    /\ op = "save_new_set" /\ msg = "Updated"
    /\ editing_group = None
    /\ lbl_group \in DOMAIN data
    /\ Len(data[lbl_group]) = 2
    /\ IsPermutation(session_words, data[lbl_group])
    /\ index = 0

(* C10: saving and loading returns the collection that was saved, and a
   restart loads the collection held in memory just before it. *)
C10_PersistenceRoundTrip ==
    /\ [](load_data(save_data(data)) = data)
    /\ [][op' = "__init__" => data' = data]_vars

\* restarted on a file the application wrote, with sets in it
C10_Witness ==
    /\ op = "__init__"
    /\ file \notin Files0
    /\ file = save_data(data)
    /\ DOMAIN data = {X, Y}

(* C11: edit_current_set sets editing_group only if a review session has been
   started, and then to the source set name of the active session; otherwise
   it shows "No set" and changes no state. *)
C11_EditsTheReviewedSet ==
    [][op' = "edit_current_set"
       => IF msg' = "No set"
          THEN UNCHANGED core
          ELSE /\ session_words # <<>>
               /\ editing_group' = lbl_group
      ]_vars

(* C12: whenever editing_group is set it is a key of data, so a save in edit
   mode only overwrites an existing entry and never adds a set name. *)
C12_EditSaveOnlyOverwrites ==
    [][(op' = "save_new_set" /\ editing_group # None)
       => /\ editing_group \in DOMAIN data
          /\ DOMAIN data' = DOMAIN data
      ]_vars

====
